---- MODULE Spec2Model ----
(***************************************************************************)
(* Model of the scriptgen research pipeline                                *)
(* (src/scriptgen/core/workflow.py and the agents it wires together).      *)
(*                                                                         *)
(* The stage graph is executed one node at a time.  A node is a function   *)
(* of the state dictionary and of the answers of its collaborators (LLM,   *)
(* search, extraction); it returns a patch, or raises.  The patch is       *)
(* merged into the state field by field, by the policy that the            *)
(* ResearchState declaration gives each field.                             *)
(*                                                                         *)
(* Strings that the code inspects character by character (search queries)  *)
(* are sequences of one-character strings; texts that the code only        *)
(* passes on (plans, critiques, reports, page contents) are opaque tokens. *)
(***************************************************************************)
EXTENDS Integers, Sequences, FiniteSets, TLC

VARIABLES
    keepsUndeclared, \* whether an input key that ResearchState does not declare reaches the nodes
    pc,              \* node about to run, or "END", or "aborted"
    state,           \* the state dictionary handed to the nodes (key -> value)
    metadata,        \* KnowledgeBase.metadata: one record per stored document
    doc_ids,         \* KnowledgeBase.doc_ids: identities of the stored documents
    abortCause,      \* "none", or why the run stopped: "collaborator", "KeyError"
    critiques,       \* history: critique stages completed in this run
    finalizes,       \* history: finalize stages completed in this run
    searchReturned,  \* history: results returned by the search stages so far
    extractReturned, \* history: pages returned by the extract stages so far
    lastNode,        \* history: the node that ran last ("none" before the first)
    extractRequest,  \* history: what the extract stage last asked its collaborator
    final_state,     \* run(): the last output of app.stream, a node's patch
    \* one call of SearchAgent.execute, unit by unit
    fpc,             \* "execute", "gather" (inside asyncio.gather) or "returned"
    fanQueries,      \* state['search_queries'] of the call
    units,           \* one record per _search_one coroutine
    calls,           \* history: the query strings handed to search_tool.invoke
    now,             \* the clock, in ticks since the call started
    fanPatch,        \* the patch the call returned ({} before it returns)
    \* one KnowledgeBase and the directory it persists to
    kbpc,            \* "down", "idle", "save" (before line 251), "index_written" (before line 252), "failed"
    index,           \* KnowledgeBase.index: the stored vectors, one per chunk
    index_file,      \* faiss.index on disk
    metadata_file,   \* metadata.pkl on disk
    kbOp,            \* history: the last operation on the knowledge base
    prevCall,        \* history: the pages of the last add_documents call of this process
    lastQuery,       \* history: the last call of retrieve and what it returned
    \* one SourceQualityScorer and its caller
    scorer_min_score, \* SourceQualityScorer.min_score
    scCall           \* the call of the scorer in progress: its arguments and its result

\* the variables of the stage graph
pipeVars == <<keepsUndeclared, pc, state, abortCause, critiques, finalizes,
              searchReturned, extractReturned, lastNode, extractRequest, final_state>>

\* the variables of the search fan-out
fanVars == <<fpc, fanQueries, units, calls, now, fanPatch>>

\* the variables of the knowledge base, the store in memory aside
kbVars == <<kbpc, index_file, metadata_file, kbOp, prevCall, lastQuery>>

\* the variables of the scorer
scVars == <<scorer_min_score, scCall>>

vars == <<pipeVars, index, metadata, doc_ids, fanVars, kbVars, scVars>>

----------------------------------------------------------------------------
(* Bounds of the model *)

\* the critique stage is not modelled beyond this value of iteration
MaxIteration == 4

\* the planner's answer lists at most this many query lines
MaxLines == 2

\* the persisted store found at start-up holds at most this many documents
MaxStoredDocs == 1

\* a call of SearchAgent.execute is given at most this many search queries
MaxQueries == 2

\* a call of add_documents is given at most this many pages
MaxPages == 2

\* add_documents is not modelled beyond this many vectors in the index
MaxVectors == 3

\* retrieve is asked for at most this many documents
MaxResults == 2

\* the scorer is handed at most this many sources
MaxSources == 2

\* a store that retrieve is called on holds at most this many documents
MaxDocs == 4

\* the extract stage is handed at most this many search results
MaxSearchResults == 5

\* the index file holds at most this many vectors that have no metadata record
MaxOrphans == 2

\* a fan-out with calls that never return has at most this many queries
MaxHangQueries == 6

----------------------------------------------------------------------------
(* Generic helpers *)

Range(s) == {s[i] : i \in 1..Len(s)}

Min(a, b) == IF a <= b THEN a ELSE b

Max(a, b) == IF a >= b THEN a ELSE b

\* s[-n:]
LastN(s, n) == SubSeq(s, Max(1, Len(s) - n + 1), Len(s))

\* s[:n]
FirstN(s, n) == SubSeq(s, 1, Min(n, Len(s)))

RECURSIVE Flatten(_)
Flatten(ss) == IF ss = <<>> THEN <<>> ELSE Head(ss) \o Flatten(Tail(ss))

RECURSIVE SelectIdx(_, _, _)
\* the subsequence of s at the indices in keep, in order, starting from i
SelectIdx(s, keep, i) ==
    IF i > Len(s) THEN <<>>
    ELSE (IF i \in keep THEN <<s[i]>> ELSE <<>>) \o SelectIdx(s, keep, i + 1)

\* d.get(k, default)
Get(d, k, default) == IF k \in DOMAIN d THEN d[k] ELSE default

\* the empty dictionary {}
EmptyDict == [k \in {} |-> TRUE]

----------------------------------------------------------------------------
(* Character strings *)

Whitespace == {" "}

QuoteChars == {"\"", "'"}

RECURSIVE LStrip(_, _)
LStrip(s, cs) == IF s # <<>> /\ Head(s) \in cs THEN LStrip(Tail(s), cs) ELSE s

RECURSIVE RStrip(_, _)
RStrip(s, cs) ==
    IF s # <<>> /\ s[Len(s)] \in cs THEN RStrip(SubSeq(s, 1, Len(s) - 1), cs) ELSE s

\* str.strip(cs)
Strip(s, cs) == RStrip(LStrip(s, cs), cs)

\* str.replace(c, '')
RemoveChar(s, c) == SelectSeq(s, LAMBDA x : x # c)

----------------------------------------------------------------------------
(* The values the collaborators can hand back *)

\* a collaborator call that raises, and one that returns v
Raise == [raises |-> TRUE]

Answer(v) == [raises |-> FALSE, value |-> v]

Answers(S) == {Raise} \cup {Answer(v) : v \in S}

Topic == "t"

\* TavilySearch(max_results=2)
max_results == 2

\* the URLs the search collaborator ranks for a query, best first
Urls == 1..max_results

\* the empty URL ''
NoUrl == 0

\* lines that can follow "Queries:" in the planner's answer:
\* "- 'a'", "- ''" and the empty line
QueryLines ==
    { <<"-", " ", "'", "a", "'">>, <<"-", " ", "'", "'">>, <<>> }

\* the planner's answer: no "Queries:" section at all, or a plan and the lines
\* after "Queries:"
NoMatch == [plan |-> "", hasPlan |-> FALSE, hasQueries |-> FALSE, lines |-> <<>>]

PlannerContents ==
    {NoMatch} \cup
    { [plan |-> "p1", hasPlan |-> TRUE, hasQueries |-> TRUE, lines |-> ls] :
        ls \in UNION { [1..n -> QueryLines] : n \in 1..MaxLines } }

\* one query's answer: the best n URLs, for some n up to max_results
SearchAnswers == { [i \in 1..n |-> i] : n \in 0..max_results }

SearchOutcomes == Answers(SearchAnswers)

\* the text of an extracted page
Contents == {"c"}

CritiqueTexts == {"k1"}

DraftTexts == {"d1"}

FinalTexts == {"f1"}

Latencies == {1}

Result(u) == [url |-> u]

Page(u, c) == [url |-> u, raw_content |-> c]

Doc(u, t, it, c) ==
    [doc_id |-> u, url |-> u, topic |-> t, iteration |-> it, content_preview |-> c]

----------------------------------------------------------------------------
(* ResearchState and the merge of a patch (core/state.py) *)

\* the fields ResearchState declares
Declared ==
    { "topic", "iteration", "plan", "search_queries", "raw_search_results",
      "draft_report", "critique", "research_history", "final_report",
      "quality_summary", "search_latency_seconds", "prior_context" }

\* the fields declared Annotated[..., operator.add]
Appended == {"research_history"}

\* the dictionary run() starts the graph with
initial_state ==
    [ topic |-> Topic, iteration |-> 1, plan |-> "", search_queries |-> <<>>,
      raw_search_results |-> <<>>, extracted_pages |-> <<>>, draft_report |-> "",
      critique |-> "", research_history |-> <<>>, final_report |-> "",
      prior_context |-> <<>> ]

\* a merge that replaces every declared field, research_history included
ApplyPatchReplacesAll(s, p) ==
    LET written == DOMAIN p \cap Declared
    IN  [ k \in DOMAIN s \cup written |-> IF k \in written THEN p[k] ELSE s[k] ]

\* a merge that sets every field the patch does not name back to its value
\* at the start of the run
ApplyPatchResetsRest(s, p) ==
    LET written == DOMAIN p \cap Declared
    IN  [ k \in DOMAIN s \cup written |->
            IF k \in written
            THEN IF k \in Appended /\ k \in DOMAIN s THEN s[k] \o p[k] ELSE p[k]
            ELSE IF k \in DOMAIN initial_state THEN initial_state[k] ELSE s[k] ]

\* merge of a node's patch: a declared field is replaced, or extended when it
\* is declared with operator.add; a key that is not declared is not written
ApplyPatch(s, p) ==
    LET written == DOMAIN p \cap Declared
    IN  [ k \in DOMAIN s \cup written |->
            IF k \in written
            THEN IF k \in Appended /\ k \in DOMAIN s THEN s[k] \o p[k] ELSE p[k]
            ELSE s[k] ]

\* the state the first node sees
StartState(keeps) ==
    [ k \in {x \in DOMAIN initial_state : x \in Declared \/ keeps} |->
        initial_state[k] ]

\* what a node hands back: a patch, or an exception
Ok(p) == [raised |-> FALSE, cause |-> "none", patch |-> p]

Raised(c) == [raised |-> TRUE, cause |-> c, patch |-> EmptyDict]

----------------------------------------------------------------------------
(* Knowledge store (utils/knowledge_base.py) *)

\* KnowledgeBase._embed: one vector per text
Embed(texts) == [i \in 1..Len(texts) |-> [vector_of |-> texts[i]]]

\* page.get("raw_content", "") or page.get("content", "")
PageContent(pg) ==
    IF Get(pg, "raw_content", "") # "" THEN pg.raw_content ELSE Get(pg, "content", "")

\* add_documents without the test of doc_id against doc_ids
AddDocumentsNoDedup(md, ids, pages, topic, iteration) ==
    LET fresh == SelectSeq(pages, LAMBDA pg :
                     PageContent(pg) # "" /\ Get(pg, "url", NoUrl) # NoUrl)
        new_meta == [i \in 1..Len(fresh) |->
                        Doc(fresh[i].url, topic, iteration, PageContent(fresh[i]))]
    IN  [ metadata |-> md \o new_meta,
          doc_ids  |-> ids \cup {new_meta[i].doc_id : i \in 1..Len(new_meta)},
          new_docs |-> [i \in 1..Len(fresh) |-> PageContent(fresh[i])] ]

\* KnowledgeBase.add_documents: the metadata and the identities after the call,
\* and the chunks it embeds; doc_ids is read in the loop over the pages and
\* written after it
AddDocuments(md, ids, pages, topic, iteration) ==
    LET fresh == SelectSeq(pages, LAMBDA pg :
                     /\ PageContent(pg) # "" /\ Get(pg, "url", NoUrl) # NoUrl
                     /\ Doc(pg.url, topic, iteration, PageContent(pg)).doc_id \notin ids)
        new_meta == [i \in 1..Len(fresh) |->
                        Doc(fresh[i].url, topic, iteration, PageContent(fresh[i]))]
    IN  [ metadata |-> md \o new_meta,
          doc_ids  |-> ids \cup {new_meta[i].doc_id : i \in 1..Len(new_meta)},
          new_docs |-> [i \in 1..Len(fresh) |-> PageContent(fresh[i])] ]

\* the texts the model embeds
VectorTexts == {"c", "d"}

\* the inner product of two unit vectors, in 1/10000: from -1 to 1
SimValues == {-2000, 10000}

\* what a query is to the index: the inner product of its vector with the
\* vector of each text
QuerySims == [VectorTexts -> SimValues]

\* the orders in which the index can rank its vectors for a query: by
\* decreasing inner product, vectors of equal inner product in any order
Rankings(vectors, sims) ==
    { f \in [1..Len(vectors) -> 1..Len(vectors)] :
        /\ \A i, j \in 1..Len(vectors) : i # j => f[i] # f[j]
        /\ \A i, j \in 1..Len(vectors) :
              i < j => sims[vectors[f[i]].vector_of] >= sims[vectors[f[j]].vector_of] }

\* self.index.search(query_vec, k): the k best vectors, best first, as pairs
\* of position and inner product; position 0 stands for the -1 that pads the
\* answer when the index holds fewer than k vectors
IndexSearch(vectors, sims, ranking, k) ==
    [i \in 1..k |->
        IF i <= Len(vectors)
        THEN [idx |-> ranking[i], dist |-> sims[vectors[ranking[i]].vector_of]]
        ELSE [idx |-> 0, dist |-> -10000]]

\* KnowledgeBase.retrieve: vectors is the index, sims and ranking what the
\* query's embedding makes of it; topic_filter "" stands for None; positions
\* count from 1; relevance_score is in 1/10000
KbRetrieve(md, vectors, sims, ranking, n_results, topic_filter) ==
    IF md = <<>> THEN <<>>
    ELSE LET k == Min(n_results * 3, Len(md))
             hits == IndexSearch(vectors, sims, ranking, k)
             kept == SelectSeq(hits, LAMBDA h :
                         /\ h.idx >= 1 /\ h.idx <= Len(md)
                         /\ (topic_filter = "" \/ md[h.idx].topic = topic_filter))
         IN  [i \in 1..Min(n_results, Len(kept)) |->
                 [ content |-> md[kept[i].idx].content_preview,
                   url |-> md[kept[i].idx].url,
                   topic |-> md[kept[i].idx].topic,
                   relevance_score |-> kept[i].dist ]]

\* a retrieve that embeds the query before it looks at the store
RetrieveAlwaysEmbeds(md) == TRUE

\* whether retrieve calls the embedding model: not when it returns early
RetrieveEmbeds(md) == md # <<>>

\* KnowledgeBase.retrieve_for_topic
RetrieveForTopic(md, vectors, sims, ranking, n_results) ==
    KbRetrieve(md, vectors, sims, ranking, n_results, "")

\* KnowledgeBase.format_context, for a non-empty list: the text names each
\* retrieved document's URL, in order
FormatContext(retrieved) == [i \in 1..Len(retrieved) |-> retrieved[i].url]

----------------------------------------------------------------------------
(* Source quality scorer (utils/scorer.py); scores are in 1/10000 *)

\* the URLs of the model: 1 is "https://nature.com/x", 2 is
\* "http://www.quora.com/q?a&b&c&d&e", 3 is "https://example.org/p", 4 is
\* "https://arxiv.org/x"; NoUrl is the empty string
\* the hosts of the URLs of the model, character by character
UrlHosts ==
    << <<"n", "a", "t", "u", "r", "e", ".", "c", "o", "m">>,
       <<"w", "w", "w", ".", "n", "a", "t", "u", "r", "e", ".", "c", "o", "m">>,
       <<"n", "a", "t", "u", "r", "e", ".", "w", "w", "w", ".", "c", "o", "m">>,
       <<"w", "w", "w", ".", "q", "u", "o", "r", "a", ".", "c", "o", "m">>,
       <<"m", "i", "t", ".", "e", "d", "u">>,
       <<"a", "g", "e", "n", "c", "y", ".", "g", "o", "v">>,
       <<"b", "l", "o", "g", ".", "c", "o", "m">> >>

\* how a URL begins: "https://", "http://", or with no scheme and no "//"
UrlSchemes == <<"https", "http", "">>

\* url.count("&") of the URLs of the model
UrlAmps == <<0, 3, 4>>

\* the number of "/" after the host of the URLs of the model
UrlPathSlashes == <<1, 5, 6, 7>>

\* len(url) of the URLs of the model
UrlLengths == <<60, 200, 201>>

\* the first URL of the model that is numbered by its parts
FirstUrl == 100

\* the URLs numbered by their parts: one for each host, scheme, number of
\* "&", number of "/" after the host, and length
NumberedUrls ==
    FirstUrl .. (FirstUrl + Len(UrlHosts) * Len(UrlSchemes) * Len(UrlAmps)
                     * Len(UrlPathSlashes) * Len(UrlLengths) - 1)

\* a URL urlparse raises ValueError on, such as "http://["
BadUrl == 99

\* the text of a URL, as far as the scorer reads it: whether urlparse accepts
\* it, its scheme, the characters of the host, len(url), url.count("&") and
\* the number of "/" after the host
UrlText(u) ==
    IF u >= FirstUrl
    THEN LET k == u - FirstUrl
             k1 == k \div Len(UrlHosts)
             k2 == k1 \div Len(UrlSchemes)
             k3 == k2 \div Len(UrlAmps)
             k4 == k3 \div Len(UrlPathSlashes)
         IN  [ parses |-> TRUE,
               host |-> UrlHosts[(k % Len(UrlHosts)) + 1],
               scheme |-> UrlSchemes[(k1 % Len(UrlSchemes)) + 1],
               amps |-> UrlAmps[(k2 % Len(UrlAmps)) + 1],
               path_slashes |-> UrlPathSlashes[(k3 % Len(UrlPathSlashes)) + 1],
               length |-> UrlLengths[(k4 % Len(UrlLengths)) + 1] ]
    ELSE CASE u = 1 -> [parses |-> TRUE, host |-> <<"n", "a", "t", "u", "r", "e", ".", "c", "o", "m">>, scheme |-> "https", amps |-> 0, path_slashes |-> 1, length |-> 20]
           [] u = 2 -> [parses |-> TRUE, host |-> <<"w", "w", "w", ".", "q", "u", "o", "r", "a", ".", "c", "o", "m">>, scheme |-> "http", amps |-> 4, path_slashes |-> 1, length |-> 33]
           [] u = 4 -> [parses |-> TRUE, host |-> <<"a", "r", "x", "i", "v", ".", "o", "r", "g">>, scheme |-> "https", amps |-> 0, path_slashes |-> 1, length |-> 19]
           [] u = BadUrl -> [parses |-> FALSE, host |-> <<>>, scheme |-> "http", amps |-> 0, path_slashes |-> 0, length |-> 8]
           [] OTHER -> [parses |-> TRUE, host |-> <<"e", "x", "a", "m", "p", "l", "e", ".", "o", "r", "g">>, scheme |-> "https", amps |-> 0, path_slashes |-> 1, length |-> 21]

\* urlparse(url).hostname or "": a URL that does not begin with a scheme and
\* "//" has no hostname
Hostname(url) == IF url.scheme = "" THEN <<>> ELSE url.host

\* url.count("/")
SlashCount(url) == url.path_slashes + (IF url.scheme = "" THEN 0 ELSE 2)

\* s.startswith(prefix)
StartsWith(s, prefix) ==
    Len(prefix) <= Len(s) /\ SubSeq(s, 1, Len(prefix)) = prefix

\* s.endswith(suffix)
EndsWith(s, suffix) ==
    Len(suffix) <= Len(s) /\ SubSeq(s, Len(s) - Len(suffix) + 1, Len(s)) = suffix

RECURSIVE Remove(_, _)
\* s.replace(old, ""): every occurrence of old is taken out, left to right
Remove(s, old) ==
    IF s = <<>> THEN <<>>
    ELSE IF StartsWith(s, old) THEN Remove(SubSeq(s, Len(old) + 1, Len(s)), old)
    ELSE <<Head(s)>> \o Remove(Tail(s), old)

\* s without old when s begins with it
RemovePrefix(s, old) ==
    IF StartsWith(s, old) THEN SubSeq(s, Len(old) + 1, Len(s)) ELSE s

\* the page texts of the model: "c" has 500 words and names the topic 10
\* times, "d" has 700 words and names it once
WordCount(c) == IF c = "" THEN 0 ELSE IF c = "d" THEN 700 ELSE 500

\* the topics of the model: Topic has one word longer than 3 characters, "ai"
\* has none, "" is the empty topic
SignificantWords(t) == IF t = "" \/ t = "ai" THEN 0 ELSE 1

\* sum(content_lower.count(w) for w in topic_words)
Mentions(c, t) ==
    IF c = "" \/ SignificantWords(t) = 0 THEN 0 ELSE IF c = "d" THEN 1 ELSE 10

TRUSTED_SOURCES ==
    { <<"n", "a", "t", "u", "r", "e", ".", "c", "o", "m">>,
      <<"a", "r", "x", "i", "v", ".", "o", "r", "g">>,
      <<"m", "i", "t", ".", "e", "d", "u">> }

LOW_QUALITY_DOMAINS ==
    { <<"q", "u", "o", "r", "a", ".", "c", "o", "m">>,
      <<"r", "e", "d", "d", "i", "t", ".", "c", "o", "m">> }

HIGH_AUTHORITY_DOMAINS ==
    { <<".", "e", "d", "u">>, <<".", "g", "o", "v">>, <<".", "o", "r", "g">> }

min_score == 3000

\* a / b rounded to the nearest integer, for b > 0
RoundDiv(a, b) == (2 * a + b) \div (2 * b)

\* "www."
Www == <<"w", "w", "w", ".">>

\* SourceQualityScorer._score_domain
score_domain(u) ==
    IF u = NoUrl THEN 0
    ELSE IF ~UrlText(u).parses THEN 0
    ELSE LET domain == Remove(Hostname(UrlText(u)), Www)
         IN  IF domain \in TRUSTED_SOURCES THEN 10000
             ELSE IF domain \in LOW_QUALITY_DOMAINS THEN 1000
             ELSE IF \E tld \in HIGH_AUTHORITY_DOMAINS : EndsWith(domain, tld) THEN 8000
             ELSE 5000

score_content(c) ==
    LET word_count == WordCount(c)
    IN  IF c = "" THEN 0
        ELSE IF word_count < 100 THEN 1000
        ELSE IF word_count < 300 THEN 3000
        ELSE IF word_count < 600 THEN 5000
        ELSE IF word_count < 1200 THEN 7000
        ELSE IF word_count < 2000 THEN 9000
        ELSE 10000

\* min(density / 0.02, 1.0), which the code does not round: the fraction
\* num / den, in 1/10000
score_relevance(c, t) ==
    IF c = "" \/ t = "" THEN [num |-> 0, den |-> 1]
    ELSE IF SignificantWords(t) = 0 THEN [num |-> 5000, den |-> 1]
    ELSE LET word_count == Max(WordCount(c), 1)
         IN  [num |-> Min(Mentions(c, t) * 500000, 10000 * word_count),
              den |-> word_count]

score_url_structure(u) ==
    IF u = NoUrl THEN 0
    ELSE LET url == UrlText(u)
             s1 == 5000 + (IF url.scheme = "https" THEN 2000 ELSE 0)
             s2 == s1 - (IF url.length > 200 THEN 2000 ELSE 0)
             s3 == IF url.amps > 3 THEN s2 - 2000
                   ELSE IF url.amps = 0 THEN s2 + 1000 ELSE s2
             path_depth == SlashCount(url) - 2
             s4 == s3 - (IF path_depth > 5 THEN 1000 ELSE 0)
         IN  Max(0, Min(s4, 10000))

\* a score_source that weighs the four scores equally
ScoreSourceEqualWeights(source, topic) ==
    LET relevance == score_relevance(source.raw_content, topic)
        content == score_content(source.raw_content)
        domain == score_domain(source.url)
        structure == score_url_structure(source.url)
    IN  [ url |-> source.url, raw_content |-> source.raw_content,
          quality_scores |->
              [ final |-> RoundDiv(relevance.num + (content + domain + structure) * relevance.den,
                                   4 * relevance.den),
                domain |-> domain, content |-> content, relevance |-> relevance,
                structure |-> structure ] ]

\* SourceQualityScorer.score_source: the source with its scores attached;
\* final is round(0.40 relevance + 0.30 content + 0.20 domain
\* + 0.10 structure, 4)
score_source(source, topic) ==
    LET relevance == score_relevance(source.raw_content, topic)
        content == score_content(source.raw_content)
        domain == score_domain(source.url)
        structure == score_url_structure(source.url)
    IN  [ url |-> source.url, raw_content |-> source.raw_content,
          quality_scores |->
              [ final |-> RoundDiv(4 * relevance.num
                                     + (3 * content + 2 * domain + structure) * relevance.den,
                                   10 * relevance.den),
                domain |-> domain, content |-> content, relevance |-> relevance,
                structure |-> structure ] ]

RECURSIVE InsertDesc(_, _)
\* x put into the list after every entry whose final score is not smaller
InsertDesc(sorted, x) ==
    IF sorted = <<>> THEN <<x>>
    ELSE IF Head(sorted).quality_scores.final >= x.quality_scores.final
         THEN <<Head(sorted)>> \o InsertDesc(Tail(sorted), x)
    ELSE <<x>> \o sorted

RECURSIVE SortDesc(_, _)
SortDesc(done, rest) ==
    IF rest = <<>> THEN done ELSE SortDesc(InsertDesc(done, Head(rest)), Tail(rest))

RECURSIVE InsertBeforeEqual(_, _)
\* x put into the list before the first entry whose final score is not larger
InsertBeforeEqual(sorted, x) ==
    IF sorted = <<>> THEN <<x>>
    ELSE IF Head(sorted).quality_scores.final > x.quality_scores.final
         THEN <<Head(sorted)>> \o InsertBeforeEqual(Tail(sorted), x)
    ELSE <<x>> \o sorted

RECURSIVE SortTiesReversed(_, _)
SortTiesReversed(done, rest) ==
    IF rest = <<>> THEN done
    ELSE SortTiesReversed(InsertBeforeEqual(done, Head(rest)), Tail(rest))

\* a score_sources whose sort puts the later of two equal sources first
ScoreSourcesTiesReversed(sources, topic) ==
    SortTiesReversed(<<>>, [i \in 1..Len(sources) |-> score_source(sources[i], topic)])

\* SourceQualityScorer.score_sources: stable sort, best first
score_sources(sources, topic) ==
    SortDesc(<<>>, [i \in 1..Len(sources) |-> score_source(sources[i], topic)])

\* a filter_sources that returns what passed the threshold, even nothing
FilterSourcesNoFallback(sources, topic, threshold) ==
    SelectSeq(score_sources(sources, topic),
              LAMBDA x : x.quality_scores.final >= threshold)

\* a filter_sources that drops a source whose score equals the threshold
FilterSourcesStrict(sources, topic, threshold) ==
    LET scored == score_sources(sources, topic)
        filtered == SelectSeq(scored, LAMBDA x : x.quality_scores.final > threshold)
    IN  IF filtered # <<>> THEN filtered ELSE FirstN(scored, 1)

\* SourceQualityScorer.filter_sources; threshold is self.min_score
filter_sources(sources, topic, threshold) ==
    LET scored == score_sources(sources, topic)
        filtered == SelectSeq(scored, LAMBDA x : x.quality_scores.final >= threshold)
    IN  IF filtered # <<>> THEN filtered ELSE FirstN(scored, 1)

RECURSIVE SumFinal(_)
SumFinal(scored) ==
    IF scored = <<>> THEN 0
    ELSE Head(scored).quality_scores.final + SumFinal(Tail(scored))

\* the summary of a non-empty list
ScoreSummary(scored) ==
    LET finals == {scored[i].quality_scores.final : i \in 1..Len(scored)}
        Bucket(P(_)) == Cardinality({i \in 1..Len(scored) : P(scored[i].quality_scores.final)})
    IN  [ total_sources |-> Len(scored),
          avg_score |-> RoundDiv(SumFinal(scored), Len(scored)),
          max_score |-> CHOOSE m \in finals : \A f \in finals : f <= m,
          min_score |-> CHOOSE m \in finals : \A f \in finals : m <= f,
          high_quality_count   |-> Bucket(LAMBDA f : f >= 7000),
          medium_quality_count |-> Bucket(LAMBDA f : f >= 4000 /\ f < 7000),
          low_quality_count    |-> Bucket(LAMBDA f : f < 4000) ]

\* a get_score_summary that answers an empty list with zeros
GetScoreSummaryZeros(scored) ==
    IF scored = <<>>
    THEN [ total_sources |-> 0, avg_score |-> 0, max_score |-> 0, min_score |-> 0,
           high_quality_count |-> 0, medium_quality_count |-> 0,
           low_quality_count |-> 0 ]
    ELSE ScoreSummary(scored)

\* SourceQualityScorer.get_score_summary
get_score_summary(scored) ==
    IF scored = <<>> THEN EmptyDict ELSE ScoreSummary(scored)

----------------------------------------------------------------------------
(* The nodes: each is the execute method of one agent *)

\* RetrieverAgent.execute; sims and ranking are what the topic's embedding
\* makes of the index
RetrieverExecute(s, md, vectors, sims, ranking) ==
    IF Len(md) = 0 THEN Ok("prior_context" :> <<>>)
    ELSE LET retrieved == RetrieveForTopic(md, vectors, sims, ranking, 3)
         IN  IF retrieved = <<>> THEN Ok("prior_context" :> <<>>)
             ELSE Ok("prior_context" :> FormatContext(retrieved))

\* q.strip().replace('-', '').strip()
ParseLine(q) == Strip(RemoveChar(Strip(q, Whitespace), "-"), Whitespace)

\* PlannerAgent.execute; resp is the LLM's answer or Raise
PlannerExecute(s, resp) ==
    IF resp.raises THEN Raised("collaborator")
    ELSE LET content == resp.value
             plan == IF content.hasPlan THEN content.plan ELSE "No plan generated."
             queries == IF content.hasQueries
                        THEN [i \in 1..Len(content.lines) |-> ParseLine(content.lines[i])]
                        ELSE <<>>
         IN  Ok( "plan" :> plan @@ "search_queries" :> queries
                 @@ "raw_search_results" :> <<>> )

\* valid_queries without the test "if q.strip()"
ValidQueriesKeepsBlank(search_queries) ==
    [i \in 1..Len(search_queries) |-> Strip(search_queries[i], QuoteChars)]

\* valid_queries of SearchAgent.execute
ValidQueries(search_queries) ==
    LET kept == SelectSeq(search_queries, LAMBDA q : Strip(q, Whitespace) # <<>>)
    IN  [i \in 1..Len(kept) |-> Strip(kept[i], QuoteChars)]

\* a fan-out in which one failing query loses the results of all
SearchAllFailsTogether(queries, outcomes) ==
    IF \E i \in 1..Len(queries) : outcomes[i].raises THEN <<>>
    ELSE Flatten([i \in 1..Len(queries) |->
                    [j \in 1..Len(outcomes[i].value) |-> Result(outcomes[i].value[j])]])

\* SearchAgent._search_all: the answers of the queries that did not fail, in
\* the order of the queries
SearchAll(queries, outcomes) ==
    Flatten([i \in 1..Len(queries) |->
                IF outcomes[i].raises THEN <<>>
                ELSE [j \in 1..Len(outcomes[i].value) |-> Result(outcomes[i].value[j])]])

\* SearchAgent.execute; outcomes[i] is the collaborator's answer to the i-th
\* valid query, elapsed the measured latency
SearchExecute(s, outcomes, elapsed) ==
    LET valid_queries == ValidQueries(s.search_queries)
    IN  IF valid_queries = <<>>
        THEN Ok("raw_search_results" :> <<>> @@ "search_latency_seconds" :> 0)
        ELSE Ok( "raw_search_results" :> SearchAll(valid_queries, outcomes)
                 @@ "search_latency_seconds" :> elapsed )

\* an execute that asks the collaborator for every URL of the search results
ExtractUrlsAll(s) ==
    [i \in 1..Len(s.raw_search_results) |-> s.raw_search_results[i].url]

\* the URLs ExtractorAgent.execute asks the collaborator for
ExtractUrls(s) ==
    LastN([i \in 1..Len(s.raw_search_results) |-> s.raw_search_results[i].url], 4)

\* the extraction collaborator was not called
NoRequest == [called |-> FALSE, urls |-> <<>>]

\* ExtractorAgent.execute, lines 135-146: the call of extractor.invoke, which
\* is not made when there are no URLs
ExtractRequest(s) ==
    IF ExtractUrls(s) = <<>> THEN NoRequest
    ELSE [called |-> TRUE, urls |-> ExtractUrls(s)]

\* ExtractorAgent.execute; outcome is Raise or the pages the collaborator returns
ExtractExecute(s, outcome) ==
    IF ExtractUrls(s) = <<>> THEN Ok("extracted_pages" :> <<>>)
    ELSE IF outcome.raises THEN Ok("extracted_pages" :> <<>>)
    ELSE Ok("extracted_pages" :> outcome.value)

\* KnowledgeStoreAgent.execute: the patch
StoreExecute(s) == Ok(EmptyDict)

\* KnowledgeStoreAgent.execute: the knowledge store after the call
StoreKb(s, md, ids) ==
    LET pages == Get(s, "extracted_pages", <<>>)
    IN  IF pages = <<>> THEN [metadata |-> md, doc_ids |-> ids, new_docs |-> <<>>]
        ELSE AddDocuments(md, ids, pages, Get(s, "topic", ""), Get(s, "iteration", 1))

\* FilterAgent.execute
FilterExecute(s, threshold) ==
    LET pages == Get(s, "extracted_pages", <<>>)
        topic == Get(s, "topic", "")
    IN  IF pages = <<>> THEN Ok("extracted_pages" :> <<>>)
        ELSE Ok( "extracted_pages" :> filter_sources(pages, topic, threshold)
                 @@ "quality_summary" :> get_score_summary(score_sources(pages, topic)) )

MAX_WRITER_PAGES == 3

\* the page texts WriterAgent.execute puts in its prompt
WriterChunks(s) ==
    LET pages == FirstN(s.extracted_pages, MAX_WRITER_PAGES)
        texts == [i \in 1..Len(pages) |-> pages[i].raw_content]
    IN  SelectSeq(texts, LAMBDA raw : raw # "")

\* WriterAgent.execute; resp is the LLM's answer or Raise
WriterExecute(s, resp) ==
    IF "extracted_pages" \notin DOMAIN s THEN Raised("KeyError")
    ELSE IF s.extracted_pages = <<>>
    THEN Ok("draft_report" :> "No extracted pages available for this iteration.")
    ELSE IF WriterChunks(s) = <<>>
    THEN Ok("draft_report" :> "No extracted page content available for this iteration.")
    ELSE IF resp.raises THEN Raised("collaborator")
    ELSE Ok("draft_report" :> resp.value)

\* whether WriterAgent.execute reaches its LLM call
WriterCallsLLM(s) ==
    /\ "extracted_pages" \in DOMAIN s
    /\ s.extracted_pages # <<>>
    /\ WriterChunks(s) # <<>>

\* a judge that moves on by two iterations
JudgeExecuteSkipsOne(s, resp) ==
    IF resp.raises THEN Raised("collaborator")
    ELSE LET history_entry ==
                 [iteration |-> s.iteration, plan |-> s.plan, critique |-> resp.value]
         IN  Ok( "critique" :> resp.value @@ "research_history" :> <<history_entry>>
                 @@ "iteration" :> s.iteration + 2 )

\* JudgeAgent.execute; resp is the LLM's answer or Raise
JudgeExecute(s, resp) ==
    IF resp.raises THEN Raised("collaborator")
    ELSE LET history_entry ==
                 [iteration |-> s.iteration, plan |-> s.plan, critique |-> resp.value]
         IN  Ok( "critique" :> resp.value @@ "research_history" :> <<history_entry>>
                 @@ "iteration" :> s.iteration + 1 )

\* FinalWriterAgent.execute; resp is the LLM's answer or Raise
FinalWriterExecute(s, resp) ==
    IF resp.raises THEN Raised("collaborator")
    ELSE Ok("final_report" :> resp.value)

\* run(), lines 214-215: what the metrics computation is handed
MetricsSources == Get(final_state, "extracted_pages", <<>>)

MetricsQualitySummary == Get(final_state, "quality_summary", EmptyDict)

----------------------------------------------------------------------------
(* The graph (MultiAgentResearchSystem._build_workflow) *)

Nodes ==
    { "retriever", "planner", "searcher", "extractor", "knowledge_store",
      "filter", "writer", "judge", "final_writer" }

\* a fork that lets one more iteration through
ShouldContinueOffByOne(s) ==
    IF s.iteration > 3 THEN "end_workflow" ELSE "continue_to_judge"

\* MultiAgentResearchSystem._should_continue
ShouldContinue(s) ==
    IF s.iteration > 2 THEN "end_workflow" ELSE "continue_to_judge"

\* a graph whose extractor is wired to the filter, past the store
NextNodeSkipsStore(node, s) ==
    CASE node = "retriever"       -> "planner"
      [] node = "planner"         -> "searcher"
      [] node = "searcher"        -> "extractor"
      [] node = "extractor"       -> "filter"
      [] node = "knowledge_store" -> "filter"
      [] node = "filter"          -> "writer"
      [] node = "writer"          ->
            IF ShouldContinue(s) = "continue_to_judge" THEN "judge" ELSE "final_writer"
      [] node = "judge"           -> "retriever"
      [] node = "final_writer"    -> "END"

\* the node the edges lead to after node, in state s
NextNode(node, s) ==
    CASE node = "retriever"       -> "planner"
      [] node = "planner"         -> "searcher"
      [] node = "searcher"        -> "extractor"
      [] node = "extractor"       -> "knowledge_store"
      [] node = "knowledge_store" -> "filter"
      [] node = "filter"          -> "writer"
      [] node = "writer"          ->
            IF ShouldContinue(s) = "continue_to_judge" THEN "judge" ELSE "final_writer"
      [] node = "judge"           -> "retriever"
      [] node = "final_writer"    -> "END"

\* one step of the graph: the node's patch is merged and the edge followed, or
\* the node's exception ends the run
Step(node, result) ==
    /\ pc = node
    /\ lastNode' = node
    /\ IF result.raised
       THEN /\ pc' = "aborted"
            /\ abortCause' = result.cause
            /\ state' = state
            /\ final_state' = final_state
       ELSE /\ state' = ApplyPatch(state, result.patch)
            /\ final_state' = result.patch
            /\ pc' = NextNode(node, state')
            /\ abortCause' = abortCause
    /\ keepsUndeclared' = keepsUndeclared
    /\ UNCHANGED <<fanVars, kbVars, scVars>>

----------------------------------------------------------------------------
(* Start of a run *)

\* the stores that can be loaded from disk at start-up: n documents, stored by
\* an earlier run on the same topic
StoredDocs == { [i \in 1..n |-> Doc(i, Topic, 1, "c")] : n \in 0..MaxStoredDocs }

\* no call of SearchAgent.execute is under way
FanIdle ==
    /\ fpc = "returned"
    /\ fanQueries = <<>>
    /\ units = <<>>
    /\ calls = <<>>
    /\ now = 0
    /\ fanPatch = EmptyDict

\* the files faiss.index and metadata.pkl: absent, or with what was written
NoIndexFile == [exists |-> FALSE, corrupt |-> FALSE, vectors |-> <<>>]

NoMetadataFile == [exists |-> FALSE, corrupt |-> FALSE, metadata |-> <<>>, doc_ids |-> {}]

\* retrieve has not been called
NoQuery ==
    [ asked |-> FALSE, n_results |-> 0, topic_filter |-> "", embedded |-> FALSE,
      sims |-> [x \in VectorTexts |-> 0], results |-> <<>> ]

\* the knowledge base's directory is empty and nothing is recorded about it
KbIdle ==
    /\ kbpc = "idle"
    /\ index_file = NoIndexFile
    /\ metadata_file = NoMetadataFile
    /\ kbOp = "none"
    /\ prevCall = [valid |-> FALSE, repeated |-> FALSE, pages |-> <<>>]
    /\ lastQuery = NoQuery

\* no run of the stage graph is under way
\* no method of the scorer is being called
NoScCall ==
    [ op |-> "none", sources |-> <<>>, topic |-> "", scored |-> <<>>,
      summary |-> EmptyDict, before |-> EmptyDict ]

ScIdle ==
    /\ scorer_min_score = min_score
    /\ scCall = NoScCall

PipeIdle ==
    /\ keepsUndeclared = FALSE
    /\ pc = "END"
    /\ state = StartState(FALSE)
    /\ abortCause = "none"
    /\ critiques = 0
    /\ finalizes = 0
    /\ searchReturned = {}
    /\ extractReturned = {}
    /\ lastNode = "none"
    /\ extractRequest = NoRequest
    /\ final_state = EmptyDict

Init ==
    /\ FanIdle
    /\ KbIdle
    /\ ScIdle
    /\ keepsUndeclared \in BOOLEAN
    /\ pc = "retriever"
    /\ state = StartState(keepsUndeclared)
    /\ metadata \in StoredDocs
    /\ doc_ids = {metadata[i].doc_id : i \in 1..Len(metadata)}
    /\ index = Embed([i \in 1..Len(metadata) |-> metadata[i].content_preview])
    /\ abortCause = "none"
    /\ critiques = 0
    /\ finalizes = 0
    /\ searchReturned = {}
    /\ extractReturned = {}
    /\ lastNode = "none"
    /\ extractRequest = NoRequest
    /\ final_state = EmptyDict

----------------------------------------------------------------------------
(* The stages *)

Retrieve ==
    /\ \E sims \in QuerySims :
       \E ranking \in Rankings(index, sims) :
           Step("retriever", RetrieverExecute(state, metadata, index, sims, ranking))
    /\ UNCHANGED <<index, metadata, doc_ids, critiques, finalizes, searchReturned, extractReturned, extractRequest>>

Plan ==
    /\ \E resp \in Answers(PlannerContents) :
           Step("planner", PlannerExecute(state, resp))
    /\ UNCHANGED <<index, metadata, doc_ids, critiques, finalizes, searchReturned, extractReturned, extractRequest>>

Search ==
    /\ pc = "searcher"
    /\ LET valid_queries == ValidQueries(state.search_queries)
       IN  \E outcomes \in [1..Len(valid_queries) -> SearchOutcomes], elapsed \in Latencies :
               LET result == SearchExecute(state, outcomes, elapsed)
               IN  /\ Step("searcher", result)
                   /\ searchReturned' = searchReturned \cup Range(result.patch.raw_search_results)
    /\ UNCHANGED <<index, metadata, doc_ids, critiques, finalizes, extractReturned, extractRequest>>

\* the answers of the extraction collaborator to a request for urls
ExtractOutcomes(urls) ==
    Answers({ SelectIdx([i \in 1..Len(urls) |-> Page(urls[i], c)], keep, 1) :
                keep \in SUBSET (1..Len(urls)), c \in Contents })

Extract ==
    /\ pc = "extractor"
    /\ \E outcome \in ExtractOutcomes(ExtractUrls(state)) :
           LET result == ExtractExecute(state, outcome)
           IN  /\ Step("extractor", result)
               /\ extractReturned' = extractReturned \cup Range(result.patch.extracted_pages)
               /\ extractRequest' = ExtractRequest(state)
    /\ UNCHANGED <<index, metadata, doc_ids, critiques, finalizes, searchReturned>>

Store ==
    /\ Step("knowledge_store", StoreExecute(state))
    /\ LET kb == StoreKb(state, metadata, doc_ids)
       IN  /\ metadata' = kb.metadata
           /\ doc_ids' = kb.doc_ids
           /\ index' = index \o Embed(kb.new_docs)
    /\ UNCHANGED <<critiques, finalizes, searchReturned, extractReturned, extractRequest>>

Filter ==
    /\ Step("filter", FilterExecute(state, min_score))
    /\ UNCHANGED <<index, metadata, doc_ids, critiques, finalizes, searchReturned, extractReturned, extractRequest>>

Draft ==
    /\ pc = "writer"
    /\ \E resp \in (IF WriterCallsLLM(state) THEN Answers(DraftTexts) ELSE {Raise}) :
           Step("writer", WriterExecute(state, resp))
    /\ UNCHANGED <<index, metadata, doc_ids, critiques, finalizes, searchReturned, extractReturned, extractRequest>>

Critique ==
    /\ pc = "judge"
    /\ state.iteration < MaxIteration
    /\ \E resp \in Answers(CritiqueTexts) :
           LET result == JudgeExecute(state, resp)
           IN  /\ Step("judge", result)
               /\ critiques' = IF result.raised THEN critiques ELSE critiques + 1
    /\ UNCHANGED <<index, metadata, doc_ids, finalizes, searchReturned, extractReturned, extractRequest>>

Finalize ==
    /\ pc = "final_writer"
    /\ \E resp \in Answers(FinalTexts) :
           LET result == FinalWriterExecute(state, resp)
           IN  /\ Step("final_writer", result)
               /\ finalizes' = IF result.raised THEN finalizes ELSE finalizes + 1
    /\ UNCHANGED <<index, metadata, doc_ids, critiques, searchReturned, extractReturned, extractRequest>>

Next ==
    \/ Retrieve
    \/ Plan
    \/ Search
    \/ Extract
    \/ Store
    \/ Filter
    \/ Draft
    \/ Critique
    \/ Finalize

Spec == Init /\ [][Next]_vars

----------------------------------------------------------------------------
(* One call of SearchAgent.execute, unit by unit (agents/researcher.py).     *)
(* asyncio.gather schedules every _search_one coroutine; each hands its      *)
(* call of the collaborator to a thread of the loop's executor and waits;    *)
(* gather resumes _search_all when every coroutine has returned or raised.   *)
(* The clock advances only while the event loop is waiting for the threads.  *)

\* the entries state['search_queries'] can hold: "'a'", "''", "" and " "
SearchQueryStrings == { <<"'", "a", "'">>, <<"'", "'">>, <<>>, <<" ">> }

\* the time a call of the search collaborator can take, in ticks
UnitLatencies == {1, 2}

\* a call of the search collaborator that never returns
Hangs == 0 - 1

\* the threads of the event loop's default executor, run_in_executor(None, ..):
\* ThreadPoolExecutor() has min(32, cpu_count + 4) workers, five on one CPU
max_workers == 5

\* the coroutine _search_one(q), created and not yet run
NewUnit(q) ==
    [query |-> q, status |-> "pending", outcome |-> Raise, latency |-> 0, remaining |-> 0]

Finished(u) == u.status \in {"done", "failed"}

\* a fan-out that awaits each unit before it starts the next
CanDispatchInTurn(us, i) == \A j \in 1..(i - 1) : Finished(us[j])

\* whether the event loop can run unit i up to its run_in_executor: gather has
\* scheduled all units, and the loop runs them in the order of the queries
CanDispatch(us, i) == \A j \in 1..(i - 1) : us[j].status # "pending"

\* whether the executor has a thread for one more call: a call handed over
\* while every worker is busy stays in the executor's queue
WorkerFree(us) ==
    Cardinality({ j \in 1..Len(us) : us[j].status = "running" }) < max_workers

\* whether unit i's call of the collaborator can start now
CanCall(us, i) == CanDispatch(us, i) /\ WorkerFree(us)

\* a barrier that lets the caller go on as soon as one unit has finished
GatherFirstDone(us) == \E i \in 1..Len(us) : Finished(us[i])

\* whether asyncio.gather(*tasks, return_exceptions=True) resumes its caller
GatherDone(us) == \A i \in 1..Len(us) : Finished(us[i])

FanInit ==
    /\ PipeIdle
    /\ KbIdle
    /\ ScIdle
    /\ index = <<>>
    /\ metadata = <<>>
    /\ doc_ids = {}
    /\ fpc = "execute"
    /\ fanQueries \in UNION { [1..n -> SearchQueryStrings] : n \in 0..MaxQueries }
    /\ units = <<>>
    /\ calls = <<>>
    /\ now = 0
    /\ fanPatch = EmptyDict

\* execute, lines 38-48, and _search_all, line 73
SearchStart ==
    /\ fpc = "execute"
    /\ LET valid_queries == ValidQueries(fanQueries)
       IN  IF valid_queries = <<>>
           THEN /\ fanPatch' = SearchExecute([search_queries |-> fanQueries], <<>>, 0).patch
                /\ fpc' = "returned"
                /\ units' = units
           ELSE /\ units' = [i \in 1..Len(valid_queries) |-> NewUnit(valid_queries[i])]
                /\ fpc' = "gather"
                /\ fanPatch' = fanPatch
    /\ UNCHANGED <<fanQueries, calls, now, pipeVars, index, metadata, doc_ids, kbVars, scVars>>

\* _search_one up to its await: the collaborator is called with the unit's query
UnitCall ==
    /\ fpc = "gather"
    /\ \E i \in 1..Len(units), outcome \in SearchOutcomes, latency \in UnitLatencies :
          /\ units[i].status = "pending"
          /\ CanCall(units, i)
          /\ units' = [units EXCEPT ![i] =
                          [@ EXCEPT !.status = "running", !.outcome = outcome,
                                    !.latency = latency, !.remaining = latency]]
          /\ calls' = Append(calls, units[i].query)
    /\ UNCHANGED <<fpc, fanQueries, now, fanPatch, pipeVars, index, metadata, doc_ids, kbVars, scVars>>

\* _search_one up to its await, with a collaborator that answers in one tick
\* or not at all
HungUnitCall ==
    /\ fpc = "gather"
    /\ \E i \in 1..Len(units), latency \in {1, Hangs} :
          /\ units[i].status = "pending"
          /\ CanCall(units, i)
          /\ units' = [units EXCEPT ![i] =
                          [@ EXCEPT !.status = "running", !.outcome = Answer(<<>>),
                                    !.latency = latency, !.remaining = latency]]
          /\ calls' = Append(calls, units[i].query)
    /\ UNCHANGED <<fpc, fanQueries, now, fanPatch, pipeVars, index, metadata, doc_ids, kbVars, scVars>>

\* the event loop waits: the calls under way proceed together
Tick ==
    /\ fpc = "gather"
    /\ \A i \in 1..Len(units) : units[i].status = "pending" => ~CanCall(units, i)
    /\ \E i \in 1..Len(units) : units[i].status = "running" /\ units[i].remaining > 0
    /\ \A i \in 1..Len(units) : units[i].status = "running" => units[i].remaining # 0
    /\ now' = now + 1
    /\ units' = [i \in 1..Len(units) |->
                    IF units[i].status = "running" /\ units[i].remaining > 0
                    THEN [units[i] EXCEPT !.remaining = @ - 1] ELSE units[i]]
    /\ UNCHANGED <<fpc, fanQueries, calls, fanPatch, pipeVars, index, metadata, doc_ids, kbVars, scVars>>

\* _search_one after its await: it returns the results, or raises RuntimeError
UnitFinish ==
    /\ fpc = "gather"
    /\ \E i \in 1..Len(units) :
          /\ units[i].status = "running"
          /\ units[i].remaining = 0
          /\ units' = [units EXCEPT ![i].status =
                          IF units[i].outcome.raises THEN "failed" ELSE "done"]
    /\ UNCHANGED <<fpc, fanQueries, calls, now, fanPatch, pipeVars, index, metadata, doc_ids, kbVars, scVars>>

\* _search_all after gather, lines 76-86, and execute, lines 50-57
SearchReturn ==
    /\ fpc = "gather"
    /\ GatherDone(units)
    /\ fanPatch' = SearchExecute([search_queries |-> fanQueries],
                                 [i \in 1..Len(units) |-> units[i].outcome],
                                 now).patch
    /\ fpc' = "returned"
    /\ UNCHANGED <<fanQueries, units, calls, now, pipeVars, index, metadata, doc_ids, kbVars, scVars>>

FanNext ==
    \/ SearchStart
    \/ UnitCall
    \/ Tick
    \/ UnitFinish
    \/ SearchReturn

SearchSpec == FanInit /\ [][FanNext]_vars

----------------------------------------------------------------------------
(* The extract stage on any list of search results (agents/researcher.py)    *)

\* the lists state['raw_search_results'] can hold
SearchResultLists ==
    UNION { [1..n -> {Result(1), Result(2)}] : n \in 0..MaxSearchResults }

ExtractInit ==
    /\ FanIdle
    /\ KbIdle
    /\ ScIdle
    /\ keepsUndeclared = FALSE
    /\ pc = "extractor"
    /\ \E rs \in SearchResultLists :
           state = [StartState(FALSE) EXCEPT !.raw_search_results = rs]
    /\ metadata = <<>>
    /\ doc_ids = {}
    /\ index = <<>>
    /\ abortCause = "none"
    /\ critiques = 0
    /\ finalizes = 0
    /\ searchReturned = {}
    /\ extractReturned = {}
    /\ lastNode = "searcher"
    /\ extractRequest = NoRequest
    /\ final_state = EmptyDict

ExtractSpec == ExtractInit /\ [][Extract]_vars

\* execute on up to MaxHangQueries queries, each call of the collaborator
\* returning after one tick or never
HangInit ==
    /\ PipeIdle
    /\ KbIdle
    /\ ScIdle
    /\ index = <<>>
    /\ metadata = <<>>
    /\ doc_ids = {}
    /\ fpc = "execute"
    /\ fanQueries \in { [i \in 1..n |-> <<"'", "a", "'">>] : n \in 1..MaxHangQueries }
    /\ units = <<>>
    /\ calls = <<>>
    /\ now = 0
    /\ fanPatch = EmptyDict

HangNext ==
    \/ SearchStart
    \/ HungUnitCall
    \/ Tick
    \/ UnitFinish
    \/ SearchReturn

HangSpec == HangInit /\ [][HangNext]_vars

----------------------------------------------------------------------------
(* One KnowledgeBase and its directory (utils/knowledge_base.py): the        *)
(* process constructs it, calls add_documents, and can stop at any point;    *)
(* _save writes faiss.index first and metadata.pkl second.                   *)

\* the pages add_documents can be handed: one URL with one text, one URL
\* fetched with either of two texts, a page with no text, a page with no URL
KbPages == { Page(1, "c"), Page(2, "c"), Page(2, "d"), Page(1, ""), Page(NoUrl, "c") }

\* what earlier processes left in the directory: documents of a run on
\* another topic
KbStoredDocs == { [i \in 1..n |-> Doc(i, "u", 1, "c")] : n \in 0..MaxStoredDocs }

PageLists == UNION { [1..n -> KbPages] : n \in 0..MaxPages }

\* the store a constructor leaves when it raises: there is no object
NoStore == [raises |-> TRUE, index |-> <<>>, metadata |-> <<>>, doc_ids |-> {}]

\* KnowledgeBase.__init__, line 64: a new store
FreshStore == [raises |-> FALSE, index |-> <<>>, metadata |-> <<>>, doc_ids |-> {}]

\* a constructor that does not read the files
LoadStoreFresh(ifile, mfile) == FreshStore

\* a constructor that starts a new store when a file does not parse
LoadStoreResets(ifile, mfile) ==
    IF ifile.exists /\ mfile.exists /\ ~ifile.corrupt /\ ~mfile.corrupt
    THEN [raises |-> FALSE, index |-> ifile.vectors, metadata |-> mfile.metadata,
          doc_ids |-> mfile.doc_ids]
    ELSE FreshStore

\* KnowledgeBase.__init__, lines 51-65: the store read from the two files when
\* both exist, a new store otherwise; faiss.read_index and pickle.load raise
\* on a file they cannot parse, and nothing catches that
LoadStore(ifile, mfile) ==
    IF ifile.exists /\ mfile.exists
    THEN IF ifile.corrupt \/ mfile.corrupt THEN NoStore
         ELSE [raises |-> FALSE, index |-> ifile.vectors, metadata |-> mfile.metadata,
               doc_ids |-> mfile.doc_ids]
    ELSE FreshStore

NoCall == [valid |-> FALSE, repeated |-> FALSE, pages |-> <<>>]

KbInit ==
    /\ PipeIdle
    /\ FanIdle
    /\ ScIdle
    /\ kbpc = "down"
    /\ metadata = <<>>
    /\ doc_ids = {}
    /\ index = <<>>
    /\ \E stored \in KbStoredDocs, icorrupt \in BOOLEAN, mcorrupt \in BOOLEAN :
          IF stored = <<>>
          THEN index_file = NoIndexFile /\ metadata_file = NoMetadataFile
          ELSE /\ index_file = [exists |-> TRUE, corrupt |-> icorrupt,
                                vectors |-> Embed([i \in 1..Len(stored) |-> "c"])]
               /\ metadata_file =
                      [exists |-> TRUE, corrupt |-> mcorrupt, metadata |-> stored,
                       doc_ids |-> {stored[i].doc_id : i \in 1..Len(stored)}]
    /\ kbOp = "none"
    /\ prevCall = NoCall
    /\ lastQuery = NoQuery

\* KnowledgeBase(persist_directory): the process starts, or a new object is
\* constructed on the directory while the store is at rest; when __init__
\* raises there is no store to work with
KbConstruct ==
    /\ kbpc \in {"down", "idle"}
    /\ LET loaded == LoadStore(index_file, metadata_file)
       IN  /\ index' = loaded.index
           /\ metadata' = loaded.metadata
           /\ doc_ids' = loaded.doc_ids
           /\ kbpc' = IF loaded.raises THEN "failed" ELSE "idle"
    /\ kbOp' = "construct"
    /\ prevCall' = NoCall
    /\ lastQuery' = NoQuery
    /\ UNCHANGED <<index_file, metadata_file, pipeVars, fanVars, scVars>>

\* add_documents, lines 85-122: up to the call of _save; the caller that has
\* just called it either calls it again with the same pages or moves on
KbAddDocuments ==
    /\ kbpc = "idle"
    /\ ~lastQuery.asked
    /\ \E pages \in (IF prevCall.valid THEN {prevCall.pages} ELSE PageLists) :
          LET added == AddDocuments(metadata, doc_ids, pages, Topic, 1)
          IN  /\ Len(index) + Len(added.new_docs) <= MaxVectors
              /\ IF added.new_docs = <<>>
                 THEN /\ UNCHANGED <<index, metadata, doc_ids>>
                      /\ kbpc' = "idle"
                 ELSE /\ index' = index \o Embed(added.new_docs)
                      /\ metadata' = added.metadata
                      /\ doc_ids' = added.doc_ids
                      /\ kbpc' = "save"
              /\ prevCall' = [valid |-> TRUE,
                              repeated |-> prevCall.valid /\ prevCall.pages = pages,
                              pages |-> pages]
    /\ kbOp' = "add"
    /\ lastQuery' = NoQuery
    /\ UNCHANGED <<index_file, metadata_file, pipeVars, fanVars, scVars>>

\* _save, line 251
KbSaveIndex ==
    /\ kbpc = "save"
    /\ index_file' = [exists |-> TRUE, corrupt |-> FALSE, vectors |-> index]
    /\ kbpc' = "index_written"
    /\ kbOp' = "save_index"
    /\ lastQuery' = NoQuery
    /\ UNCHANGED <<index, metadata, doc_ids, metadata_file, prevCall, pipeVars, fanVars, scVars>>

\* _save, lines 252-256
KbSaveMetadata ==
    /\ kbpc = "index_written"
    /\ metadata_file' = [exists |-> TRUE, corrupt |-> FALSE, metadata |-> metadata,
                         doc_ids |-> doc_ids]
    /\ kbpc' = "idle"
    /\ kbOp' = "save_metadata"
    /\ lastQuery' = NoQuery
    /\ UNCHANGED <<index, metadata, doc_ids, index_file, prevCall, pipeVars, fanVars, scVars>>

\* the process stops: what it held in memory is gone, the files stay
KbStop ==
    /\ kbpc \in {"idle", "save", "index_written", "failed"}
    /\ kbpc' = "down"
    /\ index' = <<>>
    /\ metadata' = <<>>
    /\ doc_ids' = {}
    /\ kbOp' = "stop"
    /\ prevCall' = NoCall
    /\ lastQuery' = NoQuery
    /\ UNCHANGED <<index_file, metadata_file, pipeVars, fanVars, scVars>>

\* retrieve(query, n_results, topic_filter) on the store at rest
KbQuery ==
    /\ kbpc = "idle"
    /\ ~lastQuery.asked
    /\ ~prevCall.valid
    /\ \E n_results \in 1..MaxResults, topic_filter \in {"", Topic}, sims \in QuerySims :
       \E ranking \in Rankings(index, sims) :
          lastQuery' =
              [ asked |-> TRUE, n_results |-> n_results, topic_filter |-> topic_filter,
                embedded |-> RetrieveEmbeds(metadata), sims |-> sims,
                results |-> KbRetrieve(metadata, index, sims, ranking, n_results,
                                       topic_filter) ]
    /\ kbOp' = "retrieve"
    /\ UNCHANGED <<kbpc, index, metadata, doc_ids, index_file, metadata_file, prevCall,
                   pipeVars, fanVars, scVars>>

\* the caller takes the answer of retrieve and goes on
KbQueryReturn ==
    /\ kbpc = "idle"
    /\ lastQuery.asked
    /\ lastQuery' = NoQuery
    /\ UNCHANGED <<kbpc, index, metadata, doc_ids, index_file, metadata_file, kbOp,
                   prevCall, pipeVars, fanVars, scVars>>

\* the caller of add_documents moves on to other pages or other calls
KbAddReturn ==
    /\ kbpc = "idle"
    /\ prevCall.valid
    /\ prevCall' = NoCall
    /\ UNCHANGED <<kbpc, index, metadata, doc_ids, index_file, metadata_file, kbOp,
                   lastQuery, pipeVars, fanVars, scVars>>

KbNext ==
    \/ KbQuery
    \/ KbQueryReturn
    \/ KbAddReturn
    \/ KbConstruct
    \/ KbAddDocuments
    \/ KbSaveIndex
    \/ KbSaveMetadata
    \/ KbStop

KbSpec == KbInit /\ [][KbNext]_vars

----------------------------------------------------------------------------
(* retrieve on a store at rest (utils/knowledge_base.py): the store holds    *)
(* documents of this run's topic and of another, both files are written.     *)

\* the stores add_documents can have built: document i has URL i; those of
\* this run's topic hold the text "d", those of the other topic the text "c"
RetrieveStores ==
    UNION { { [i \in 1..n |-> IF i \in mine THEN Doc(i, Topic, 1, "d")
                                             ELSE Doc(i, "u", 1, "c")] :
                mine \in SUBSET (1..n) } : n \in 0..MaxDocs }

RetrieveInit ==
    /\ PipeIdle
    /\ FanIdle
    /\ ScIdle
    /\ kbpc = "idle"
    /\ metadata \in RetrieveStores
    /\ doc_ids = {metadata[i].doc_id : i \in 1..Len(metadata)}
    /\ index = Embed([i \in 1..Len(metadata) |-> metadata[i].content_preview])
    /\ index_file = [exists |-> TRUE, corrupt |-> FALSE, vectors |-> index]
    /\ metadata_file = [exists |-> TRUE, corrupt |-> FALSE, metadata |-> metadata,
                        doc_ids |-> doc_ids]
    /\ kbOp = "none"
    /\ prevCall = NoCall
    /\ lastQuery = NoQuery

RetrieveNext ==
    \/ KbQuery
    \/ KbQueryReturn

RetrieveSpec == RetrieveInit /\ [][RetrieveNext]_vars

----------------------------------------------------------------------------
(* One SourceQualityScorer and the FilterAgent that owns it                  *)
(* (utils/scorer.py, agents/filter.py): the calls of its public methods,     *)
(* one at a time, and the score_filter stage of successive iterations.       *)

\* the sources handed to the scorer: two trusted pages with the same scores,
\* a low-quality URL without text and with the one-mention text, an unknown
\* .org page with the one-mention text, a page without URL
ScSources ==
    { Page(1, "c"), Page(4, "c"), Page(2, ""), Page(2, "d"), Page(3, "d"),
      Page(NoUrl, "c") }

SourceLists == UNION { [1..n -> ScSources] : n \in 0..MaxSources }

\* the topics handed to the scorer
ScTopics == {Topic, "ai", ""}

\* the thresholds a scorer is constructed with: the default of FilterAgent,
\* the final score of the trusted pages, and one no source reaches
MinScores == {min_score, 8300, 9900}

ScInit ==
    /\ PipeIdle
    /\ FanIdle
    /\ KbIdle
    /\ index = <<>>
    /\ metadata = <<>>
    /\ doc_ids = {}
    /\ scorer_min_score \in MinScores
    /\ scCall = NoScCall

\* what a call of the scorer leaves alone
ScUnchanged ==
    UNCHANGED <<scorer_min_score, keepsUndeclared, pc, abortCause, critiques, finalizes,
                searchReturned, extractReturned, lastNode, extractRequest, index, metadata, doc_ids,
                fanVars, kbVars>>

\* scorer.score_source(source, topic)
ScScoreSource ==
    /\ scCall.op = "none"
    /\ \E source \in ScSources, topic \in ScTopics :
          scCall' = [ NoScCall EXCEPT !.op = "score_source", !.sources = <<source>>,
                                      !.topic = topic,
                                      !.scored = <<score_source(source, topic)>> ]
    /\ UNCHANGED <<state, final_state>>
    /\ ScUnchanged

\* scorer.score_sources(sources, topic)
ScScoreSources ==
    /\ scCall.op = "none"
    /\ \E sources \in SourceLists, topic \in ScTopics :
          scCall' = [ NoScCall EXCEPT !.op = "score_sources", !.sources = sources,
                                      !.topic = topic,
                                      !.scored = score_sources(sources, topic) ]
    /\ UNCHANGED <<state, final_state>>
    /\ ScUnchanged

\* scorer.filter_sources(sources, topic)
ScFilterSources ==
    /\ scCall.op = "none"
    /\ \E sources \in SourceLists, topic \in ScTopics :
          scCall' = [ NoScCall EXCEPT !.op = "filter_sources", !.sources = sources,
                                      !.topic = topic,
                                      !.scored = filter_sources(sources, topic,
                                                                scorer_min_score) ]
    /\ UNCHANGED <<state, final_state>>
    /\ ScUnchanged

\* scorer.get_score_summary(scored_sources), on a list score_sources made
ScGetScoreSummary ==
    /\ scCall.op = "none"
    /\ \E sources \in SourceLists, topic \in ScTopics :
          LET scored == score_sources(sources, topic)
          IN  scCall' = [ NoScCall EXCEPT !.op = "get_score_summary", !.sources = sources,
                                          !.topic = topic, !.scored = scored,
                                          !.summary = get_score_summary(scored) ]
    /\ UNCHANGED <<state, final_state>>
    /\ ScUnchanged

\* the score_filter stage of one iteration: FilterAgent.execute on the state
\* with the pages this iteration extracted, and the merge of its patch
ScScoreFilter ==
    /\ scCall.op = "none"
    /\ \E pages \in SourceLists :
          LET s == ("extracted_pages" :> pages) @@ state
              result == FilterExecute(s, scorer_min_score)
          IN  /\ state' = ApplyPatch(state, result.patch)
              /\ final_state' = result.patch
              /\ scCall' = [ NoScCall EXCEPT
                               !.op = "score_filter", !.sources = pages,
                               !.topic = Get(s, "topic", ""),
                               !.scored = result.patch.extracted_pages,
                               !.before = Get(state, "quality_summary", EmptyDict) ]
    /\ ScUnchanged

\* the finalize stage that ends the run: FinalWriterAgent.execute, the merge
\* of its patch, and the last output of app.stream
ScFinalize ==
    /\ scCall.op = "none"
    /\ \E text \in FinalTexts :
          LET result == FinalWriterExecute(state, Answer(text))
          IN  /\ state' = ApplyPatch(state, result.patch)
              /\ final_state' = result.patch
              /\ scCall' = [ NoScCall EXCEPT
                               !.op = "finalize", !.topic = Get(state, "topic", ""),
                               !.before = Get(state, "quality_summary", EmptyDict) ]
    /\ ScUnchanged

\* the call returns to its caller
ScReturn ==
    /\ scCall.op # "none"
    /\ scCall' = NoScCall
    /\ UNCHANGED <<state, final_state>>
    /\ ScUnchanged

ScNext ==
    \/ ScScoreSource
    \/ ScScoreSources
    \/ ScFilterSources
    \/ ScGetScoreSummary
    \/ ScReturn

ScorerSpec == ScInit /\ [][ScNext]_vars

\* the score_filter stages of successive iterations, then finalize
FilterNext ==
    \/ ScScoreFilter
    \/ ScFinalize
    \/ ScReturn

FilterSpec == ScInit /\ [][FilterNext]_vars

----------------------------------------------------------------------------
(* The stages of a run that use the knowledge base: retrieve, store and      *)
(* critique, iteration after iteration, on the store MultiAgentResearchSystem *)
(* constructed; the store stage is handed the pages of its iteration.        *)

\* the vectors a process that stopped between the two writes of _save left in
\* faiss.index without a record in metadata.pkl
OrphanVectors ==
    UNION { [1..j -> {[vector_of |-> t] : t \in VectorTexts}] : j \in 0..MaxOrphans }

\* run(): the first stage is retrieve, iteration is 1, and the knowledge base
\* is what KnowledgeBase() loaded from the directory
StoreInit ==
    /\ FanIdle
    /\ ScIdle
    /\ keepsUndeclared = FALSE
    /\ pc = "retriever"
    /\ state = StartState(FALSE)
    /\ abortCause = "none"
    /\ critiques = 0
    /\ finalizes = 0
    /\ searchReturned = {}
    /\ extractReturned = {}
    /\ lastNode = "none"
    /\ extractRequest = NoRequest
    /\ final_state = EmptyDict
    /\ kbpc = "idle"
    /\ kbOp = "construct"
    /\ prevCall = NoCall
    /\ lastQuery = NoQuery
    /\ \E stored \in KbStoredDocs, orphans \in OrphanVectors :
          /\ IF stored = <<>>
             THEN index_file = NoIndexFile /\ metadata_file = NoMetadataFile
             ELSE /\ index_file =
                        [exists |-> TRUE, corrupt |-> FALSE,
                         vectors |-> Embed([i \in 1..Len(stored) |-> "c"]) \o orphans]
                  /\ metadata_file =
                        [exists |-> TRUE, corrupt |-> FALSE, metadata |-> stored,
                         doc_ids |-> {stored[i].doc_id : i \in 1..Len(stored)}]
          /\ index = LoadStore(index_file, metadata_file).index
          /\ metadata = LoadStore(index_file, metadata_file).metadata
          /\ doc_ids = LoadStore(index_file, metadata_file).doc_ids

\* what a stage of this part of the run leaves alone
StageUnchanged ==
    UNCHANGED <<keepsUndeclared, abortCause, critiques, finalizes, searchReturned,
                extractReturned, extractRequest, fanVars, kbVars, scVars>>

\* the retrieve stage: RetrieverAgent.execute and the merge of its patch
RetrieveStage ==
    /\ pc = "retriever"
    /\ \E sims \in QuerySims :
       \E ranking \in Rankings(index, sims) :
           LET result == RetrieverExecute(state, metadata, index, sims, ranking)
           IN  /\ state' = ApplyPatch(state, result.patch)
               /\ final_state' = result.patch
    /\ pc' = "knowledge_store"
    /\ lastNode' = "retriever"
    /\ UNCHANGED <<index, metadata, doc_ids>>
    /\ StageUnchanged

\* the store stage, handed the pages of its iteration: KnowledgeStoreAgent
\* .execute and the merge of its patch; then the stages up to the fork
StoreStage ==
    /\ pc = "knowledge_store"
    /\ \E pages \in PageLists :
          LET s == ("extracted_pages" :> pages) @@ state
              kb == StoreKb(s, metadata, doc_ids)
          IN  /\ metadata' = kb.metadata
              /\ doc_ids' = kb.doc_ids
              /\ index' = index \o Embed(kb.new_docs)
              /\ state' = ApplyPatch(state, StoreExecute(s).patch)
              /\ final_state' = StoreExecute(s).patch
    /\ pc' = NextNode("writer", state')
    /\ lastNode' = "knowledge_store"
    /\ StageUnchanged

\* the critique stage: JudgeAgent.execute and the merge of its patch
JudgeStage ==
    /\ pc = "judge"
    /\ \E text \in CritiqueTexts :
          LET result == JudgeExecute(state, Answer(text))
          IN  /\ state' = ApplyPatch(state, result.patch)
              /\ final_state' = result.patch
    /\ pc' = NextNode("judge", state')
    /\ lastNode' = "judge"
    /\ UNCHANGED <<index, metadata, doc_ids>>
    /\ StageUnchanged

StoreNext ==
    \/ RetrieveStage
    \/ StoreStage
    \/ JudgeStage

StoreSpec == StoreInit /\ [][StoreNext]_vars

\* the URLs handed to the two scores that read only the URL
ScoredUrls == NumberedUrls \cup {NoUrl, BadUrl, 1, 2, 4}

\* scorer._score_domain(url)
ScScoreDomain ==
    /\ scCall.op = "none"
    /\ \E u \in ScoredUrls :
          scCall' = [ NoScCall EXCEPT !.op = "score_domain", !.sources = <<Page(u, "")>>,
                                      !.summary = ("score" :> score_domain(u)) ]
    /\ UNCHANGED <<state, final_state>>
    /\ ScUnchanged

\* scorer._score_url_structure(url)
ScScoreUrlStructure ==
    /\ scCall.op = "none"
    /\ \E u \in ScoredUrls :
          scCall' = [ NoScCall EXCEPT !.op = "score_url_structure",
                                      !.sources = <<Page(u, "")>>,
                                      !.summary = ("score" :> score_url_structure(u)) ]
    /\ UNCHANGED <<state, final_state>>
    /\ ScUnchanged

UrlNext ==
    \/ ScScoreDomain
    \/ ScScoreUrlStructure
    \/ ScReturn

UrlSpec == ScInit /\ [][UrlNext]_vars

----------------------------------------------------------------------------
(* Properties *)

\* the run is over: the graph reached END, or a node's exception ended it
RunOver == pc \in {"END", "aborted"}

\* C1: a run that started with iteration = 1 has, when it is over, executed the
\* critique stage exactly twice and the finalize stage exactly once.
C1_TwoCritiquesThenFinalize ==
    RunOver => (critiques = 2 /\ finalizes = 1)

\* C2: the fork after the draft stage leads to critique when iteration <= 2 and
\* to finalize when iteration > 2, and a state reduced to its iteration field
\* is routed the same way.
C2_ForkOnIterationOnly ==
    (lastNode = "writer" /\ pc # "aborted") =>
        /\ state.iteration <= 2 => pc = "judge"
        /\ state.iteration > 2 => pc = "final_writer"
        /\ ShouldContinue([k \in {"iteration"} |-> state[k]]) = ShouldContinue(state)

C2_Witness ==
    lastNode = "writer" /\ pc = "final_writer" /\ state.iteration = 3

\* C3: a run in which no collaborator call raised does not end before finalize
\* has run and written final_report.
C3_RunEndsWithFinalReport ==
    (RunOver /\ abortCause # "collaborator") =>
        (pc = "END" /\ finalizes = 1 /\ state.final_report \in FinalTexts)

\* C4: an exception of a collaborator never ends the run: the stage that made
\* the call returns a patch and the graph goes on.
C4_CollaboratorFailureContained ==
    abortCause # "collaborator"

\* the edges the stages are to follow
StageOrder ==
    { <<"retriever", "planner">>, <<"planner", "searcher">>,
      <<"searcher", "extractor">>, <<"extractor", "knowledge_store">>,
      <<"knowledge_store", "filter">>, <<"filter", "writer">>,
      <<"writer", "judge">>, <<"writer", "final_writer">>,
      <<"judge", "retriever">>, <<"final_writer", "END">> }

\* C5: every step of a run goes from a stage to the stage that follows it in
\* the order retrieve, plan, search, extract, store, score_filter, draft, then
\* critique or finalize; critique leads to retrieve only and finalize to END
\* only (a step that ends the run by an exception aside).
C5_StagesInOrder ==
    [][pc' = "aborted" \/ <<pc, pc'>> \in StageOrder]_vars

C5_Witness ==
    lastNode = "judge" /\ pc = "retriever" /\ critiques = 2

\* C6: a completed critique stage increases iteration by exactly 1 and adds
\* exactly one entry to research_history; every other step leaves both alone.
C6_OnlyCritiqueAdvances ==
    [][ IF pc = "judge" /\ pc' # "aborted"
        THEN /\ state'.iteration = state.iteration + 1
             /\ Len(state'.research_history) = Len(state.research_history) + 1
             /\ SubSeq(state'.research_history, 1, Len(state.research_history))
                    = state.research_history
        ELSE /\ state'.iteration = state.iteration
             /\ state'.research_history = state.research_history ]_vars

C6_Witness ==
    lastNode = "judge" /\ critiques = 1 /\ state.iteration = 2
        /\ Len(state.research_history) = 1

\* C7: in every state of a run research_history has as many entries as
\* critique stages have completed.
C7_HistoryCountsCritiques ==
    Len(state.research_history) = critiques

C7_Witness ==
    critiques = 2 /\ Len(state.research_history) = 2

C9_ExtractedPagesAccumulate ==
    extractReturned \subseteq Range(Get(state, "extracted_pages", <<>>))

\* C10: final_report is written exactly once per run, by the finalize stage,
\* and once it is written the run is at END: no stage runs after it.
C10_FinalReportWrittenOnce ==
    /\ state.final_report # "" => (finalizes = 1 /\ pc = "END")
    /\ RunOver => (finalizes = 1 /\ state.final_report # "")

\* the number of entries of s equal to x
Count(s, x) == Cardinality({k \in 1..Len(s) : s[k] = x})

\* the units of the call that returned results
DoneUnits == {i \in 1..Len(units) : units[i].status = "done"}

\* C11: when the call has returned after some queries failed, its result list
\* holds exactly the results of the queries that did not fail: each result as
\* many times as non-failing queries returned it, and nothing else.
C11_FailedQueriesContributeNothing ==
    (fpc = "returned" /\ units # <<>>) =>
        LET results == fanPatch.raw_search_results
        IN  /\ Range(results) \subseteq {Result(u) : u \in Urls}
            /\ \A u \in Urls :
                  Count(results, Result(u)) =
                      Cardinality({i \in DoneUnits : u \in Range(units[i].outcome.value)})

C11_Witness ==
    /\ fpc = "returned"
    /\ \E i, j \in 1..Len(units) :
          /\ units[i].status = "failed"
          /\ units[j].status = "done" /\ units[j].outcome.value # <<>>
    /\ fanPatch.raw_search_results # <<>>

\* the latency of the slowest unit
SlowestLatency ==
    CHOOSE m \in {units[i].latency : i \in 1..Len(units)} :
        \A i \in 1..Len(units) : units[i].latency <= m

C13_PatchAfterBarrier ==
    /\ fpc = "gather" => fanPatch = EmptyDict
    /\ fanPatch # EmptyDict => \A i \in 1..Len(units) : Finished(units[i])

C13_Witness ==
    /\ fpc = "returned" /\ Len(units) = 2
    /\ units[1].status = "done" /\ units[1].latency = 2
    /\ units[2].status = "failed" /\ units[2].latency = 1
    /\ fanPatch # EmptyDict

\* search_queries is empty or holds only empty and whitespace-only strings
OnlyBlankQueries ==
    \A i \in 1..Len(fanQueries) : Strip(fanQueries[i], Whitespace) = <<>>

\* C14: when search_queries is empty or holds only empty or whitespace-only
\* strings, the collaborator is never called and the call returns an empty
\* result list and latency 0.
C14_BlankQueriesReturnEmpty ==
    OnlyBlankQueries =>
        /\ calls = <<>>
        /\ fpc = "returned" =>
              /\ fanPatch.raw_search_results = <<>>
              /\ fanPatch.search_latency_seconds = 0

C14_Witness ==
    fpc = "returned" /\ fanQueries = << <<" ">>, <<>> >> /\ calls = <<>>

\* the entries of search_queries that are non-empty after the blank ones are
\* discarded and the quote characters trimmed
NonEmptyTrimmed ==
    SelectSeq([i \in 1..Len(fanQueries) |-> Strip(fanQueries[i], QuoteChars)],
              LAMBDA q : Strip(q, Whitespace) # <<>>)

\* C15: the collaborator is never handed an empty query string, and when the
\* call has returned it was called exactly once for each entry of
\* search_queries that is non-empty after trimming.
C15_OneCallPerNonEmptyQuery ==
    /\ \A k \in 1..Len(calls) : calls[k] # <<>>
    /\ fpc = "returned" => calls = NonEmptyTrimmed

\* C16: the knowledge store holds at most one document per distinct URL.
C16_OneDocumentPerUrl ==
    \A i, j \in 1..Len(metadata) : metadata[i].url = metadata[j].url => i = j

\* C17: a call of add_documents with the pages of the call before it (same
\* process, nothing in between but the save) changes nothing: the metadata,
\* the identities and the index are as they were, and nothing is left to save.
C17_SecondCallIsNoOp ==
    [][ (kbOp' = "add" /\ prevCall'.repeated) =>
            /\ metadata' = metadata
            /\ doc_ids' = doc_ids
            /\ index' = index
            /\ kbpc' = "idle" ]_vars

C17_Witness ==
    /\ kbOp = "add" /\ prevCall.repeated
    /\ \E i \in 1..Len(prevCall.pages), k \in 1..Len(metadata) :
          /\ prevCall.pages[i].raw_content # ""
          /\ prevCall.pages[i].url = metadata[k].url
          /\ metadata[k].url = 2

\* the URLs of the documents in the store
StoredUrls == {metadata[i].url : i \in 1..Len(metadata)}

\* the distinct URLs, among the pages with a URL and a text, that are not in
\* the store
NewUrls(pages) ==
    { pages[i].url : i \in { k \in 1..Len(pages) :
          /\ pages[k].url # NoUrl /\ pages[k].raw_content # ""
          /\ pages[k].url \notin StoredUrls } }

\* C18: a call of add_documents increases the number of documents by the
\* number of distinct new URLs among its pages with a URL and a text, and no
\* document without a URL or without a text is ever stored.
C18_CountGrowsByNewUrls ==
    [][ kbOp' = "add" =>
            /\ Len(metadata') = Len(metadata) + Cardinality(NewUrls(prevCall'.pages))
            /\ \A i \in 1..Len(metadata') : metadata'[i].url # NoUrl
            /\ \A i \in 1..Len(index') : index'[i].vector_of # "" ]_vars

\* C19: whenever both files are on disk they describe the same number of
\* documents, and a store constructed from them has as many vectors as
\* metadata records.
C19_FilesAgree ==
    /\ (index_file.exists /\ metadata_file.exists) =>
           Len(index_file.vectors) = Len(metadata_file.metadata)
    /\ kbOp = "construct" => Len(index) = Len(metadata)

\* C20: constructing a new KnowledgeBase on the directory while the store is
\* at rest yields the document count, the identities and the metadata records
\* the store held in memory.
C20_RestartRoundTrip ==
    [][ (kbpc = "idle" /\ kbOp' = "construct") =>
            /\ Len(metadata') = Len(metadata)
            /\ doc_ids' = doc_ids
            /\ metadata' = metadata ]_vars

C20_Witness ==
    /\ kbOp = "construct" /\ kbpc = "idle"
    /\ Len(metadata) = 2 /\ doc_ids = {1, 2}
    /\ metadata_file.metadata = metadata

\* both files are on disk and one of them does not parse
FilesUnreadable ==
    index_file.exists /\ metadata_file.exists /\ (index_file.corrupt \/ metadata_file.corrupt)

\* C21: while the persisted files exist and do not parse, constructing the
\* store fails: no store comes to exist (empty or otherwise) and the files
\* stay as they are.
C21_CorruptFilesFailLoudly ==
    [][ FilesUnreadable =>
            /\ kbpc' \in {"failed", "down"}
            /\ index_file' = index_file
            /\ metadata_file' = metadata_file ]_vars

C21_Witness ==
    /\ kbpc = "failed" /\ kbOp = "construct"
    /\ metadata_file.corrupt /\ ~index_file.corrupt
    /\ Len(metadata_file.metadata) > 0

\* C22: retrieve on a store with no documents returns the empty list, whatever
\* the query, the number asked for and the topic filter, and does not call
\* the embedding model.
C22_EmptyStoreAnswersEmpty ==
    (lastQuery.asked /\ metadata = <<>>) =>
        /\ lastQuery.results = <<>>
        /\ ~lastQuery.embedded

\* retrieve with a topic filter has answered on a store constructed over an
\* empty directory
C22_Witness ==
    /\ lastQuery.asked
    /\ kbOp = "retrieve"
    /\ metadata = <<>>
    /\ lastQuery.topic_filter = Topic
    /\ lastQuery.results = <<>>

\* the inner product of the query with the text of a returned document
ResultSimilarity(r) == lastQuery.sims[r.content]

\* C23: retrieve returns at most n_results documents, each no less similar to
\* the query than the one after it, and with a topic filter only documents of
\* that topic.
C23_AtMostNRankedAndFiltered ==
    lastQuery.asked =>
        /\ Len(lastQuery.results) <= lastQuery.n_results
        /\ \A i, j \in 1..Len(lastQuery.results) :
              i < j => ResultSimilarity(lastQuery.results[i])
                          >= ResultSimilarity(lastQuery.results[j])
        /\ lastQuery.topic_filter # "" =>
              \A i \in 1..Len(lastQuery.results) :
                  lastQuery.results[i].topic = lastQuery.topic_filter

\* C24: every relevance_score retrieve returns from a non-empty store lies
\* between 0 and 1.
C24_RelevanceInUnitInterval ==
    (lastQuery.asked /\ metadata # <<>>) =>
        \A i \in 1..Len(lastQuery.results) :
            /\ lastQuery.results[i].relevance_score >= 0
            /\ lastQuery.results[i].relevance_score <= 10000

\* the sources of the scorer's call, each scored on its own, in input order
ScoredInputs ==
    [i \in 1..Len(scCall.sources) |-> score_source(scCall.sources[i], scCall.topic)]

\* the final score of an entry of a scored list
FinalOf(x) == x.quality_scores.final

\* how many times each value occurs in a list
AsBag(s) == [x \in Range(s) |-> Cardinality({i \in 1..Len(s) : s[i] = x})]

\* the list is in non-increasing order of final score
Descending(s) == \A i, j \in 1..Len(s) : i < j => FinalOf(s[i]) >= FinalOf(s[j])

\* C25: filter_sources given at least one source returns at least one; when
\* no source reaches min_score it returns exactly one entry, a source whose
\* final score no other source exceeds.
C25_FilterNeverEmpty ==
    (scCall.op = "filter_sources" /\ scCall.sources # <<>>) =>
        /\ scCall.scored # <<>>
        /\ (\A i \in 1..Len(ScoredInputs) : FinalOf(ScoredInputs[i]) < scorer_min_score) =>
              /\ Len(scCall.scored) = 1
              /\ \E i \in 1..Len(ScoredInputs) :
                    /\ scCall.scored[1] = ScoredInputs[i]
                    /\ \A j \in 1..Len(ScoredInputs) :
                          FinalOf(ScoredInputs[j]) <= FinalOf(ScoredInputs[i])

\* no source of two reaches the threshold, and the better one, handed in
\* second, is the one returned
C25_Witness ==
    /\ scCall.op = "filter_sources"
    /\ Len(scCall.sources) = 2
    /\ scorer_min_score = 9900
    /\ FinalOf(ScoredInputs[1]) < FinalOf(ScoredInputs[2])
    /\ scCall.scored = <<ScoredInputs[2]>>

\* C26: when at least one source reaches min_score, filter_sources returns
\* exactly the scored sources whose final score is at least min_score, each
\* as often as it was handed in, in descending order of final score.
C26_FilterKeepsExactlyThoseAbove ==
    ( /\ scCall.op = "filter_sources"
      /\ \E i \in 1..Len(ScoredInputs) : FinalOf(ScoredInputs[i]) >= scorer_min_score ) =>
        /\ AsBag(scCall.scored)
             = AsBag(SelectSeq(ScoredInputs, LAMBDA x : FinalOf(x) >= scorer_min_score))
        /\ \A k \in 1..Len(scCall.scored) : FinalOf(scCall.scored[k]) >= scorer_min_score
        /\ Descending(scCall.scored)

\* two different sources score exactly the threshold and both are returned
C26_Witness ==
    /\ scCall.op = "filter_sources"
    /\ Len(scCall.sources) = 2
    /\ scCall.sources[1] # scCall.sources[2]
    /\ FinalOf(ScoredInputs[1]) = scorer_min_score
    /\ FinalOf(ScoredInputs[2]) = scorer_min_score
    /\ Len(scCall.scored) = 2

\* C27: score_source attaches a final score within half of 1/10000 of
\* 0.40 relevance + 0.30 content + 0.20 domain + 0.10 structure, and the four
\* sub-scores and the final score lie between 0 and 1.
C27_FinalIsWeightedSum ==
    scCall.op = "score_source" =>
        LET q == scCall.scored[1].quality_scores
            weighted == 4 * q.relevance.num
                          + (3 * q.content + 2 * q.domain + q.structure) * q.relevance.den
            diff == 10 * q.relevance.den * q.final - weighted
        IN  /\ q.relevance.den > 0
            /\ 2 * diff <= 10 * q.relevance.den
            /\ 2 * diff >= -10 * q.relevance.den
            /\ q.relevance.num >= 0 /\ q.relevance.num <= 10000 * q.relevance.den
            /\ \A v \in {q.content, q.domain, q.structure, q.final} : v >= 0 /\ v <= 10000

\* a source whose weighted sum is not a multiple of 1/10000 has been scored:
\* relevance 50/700, content 0.7, domain 0.8, structure 0.8, final 0.4786
C27_Witness ==
    /\ scCall.op = "score_source"
    /\ scCall.sources = <<Page(3, "d")>>
    /\ scCall.topic = Topic
    /\ scCall.scored[1].quality_scores.relevance = [num |-> 500000, den |-> 700]
    /\ scCall.scored[1].quality_scores.final = 4786

\* C28: score_sources returns one scored entry per source, in non-increasing
\* order of final score, sources of equal final score in their input order.
C28_SortedStable ==
    scCall.op = "score_sources" =>
        /\ Len(scCall.scored) = Len(scCall.sources)
        /\ Descending(scCall.scored)
        /\ \E f \in [1..Len(scCall.sources) -> 1..Len(scCall.sources)] :
              /\ \A k, l \in 1..Len(scCall.sources) : k # l => f[k] # f[l]
              /\ \A k \in 1..Len(scCall.sources) : scCall.scored[k] = ScoredInputs[f[k]]
              /\ \A k, l \in 1..Len(scCall.sources) :
                    (k < l /\ FinalOf(scCall.scored[k]) = FinalOf(scCall.scored[l]))
                        => f[k] < f[l]

\* two different sources with the same final score have been sorted
C28_Witness ==
    /\ scCall.op = "score_sources"
    /\ Len(scCall.sources) = 2
    /\ scCall.sources[1] # scCall.sources[2]
    /\ FinalOf(ScoredInputs[1]) = FinalOf(ScoredInputs[2])
    /\ scCall.scored = ScoredInputs

\* C29: get_score_summary answers an empty list with an empty mapping;
\* otherwise total_sources is the length of the list, min_score <= avg_score
\* <= max_score, and the high (>= 0.7), medium (0.4 to 0.7) and low (< 0.4)
\* counts are the sizes of those buckets and sum to total_sources.
C29_SummaryCountsEverySource ==
    scCall.op = "get_score_summary" =>
        IF scCall.scored = <<>> THEN DOMAIN scCall.summary = {}
        ELSE LET m == scCall.summary
                 n == Len(scCall.scored)
                 InBucket(lo, hi) ==
                     Cardinality({i \in 1..n : /\ FinalOf(scCall.scored[i]) >= lo
                                               /\ FinalOf(scCall.scored[i]) < hi})
             IN  /\ m.total_sources = n
                 /\ m.min_score <= m.avg_score /\ m.avg_score <= m.max_score
                 /\ m.high_quality_count = InBucket(7000, 10001)
                 /\ m.medium_quality_count = InBucket(4000, 7000)
                 /\ m.low_quality_count = InBucket(0, 4000)
                 /\ m.high_quality_count + m.medium_quality_count + m.low_quality_count = n

\* a list with one source of high and one of low quality has been summarised
C29_Witness ==
    /\ scCall.op = "get_score_summary"
    /\ Len(scCall.scored) = 2
    /\ scCall.summary.high_quality_count = 1
    /\ scCall.summary.low_quality_count = 1
    /\ scCall.summary.min_score < scCall.summary.avg_score
    /\ scCall.summary.avg_score < scCall.summary.max_score

\* two mappings with the same keys and the same values
SameMapping(a, b) == DOMAIN a = DOMAIN b /\ \A k \in DOMAIN a : a[k] = b[k]

Matching == {i \in 1..Len(metadata) : metadata[i].topic = lastQuery.topic_filter}

\* the URLs of the documents the last call of retrieve returned
ReturnedUrls == {lastQuery.results[k].url : k \in 1..Len(lastQuery.results)}

\* C32: with a topic filter, retrieve returns n documents of that topic, or
\* all of them when fewer than n have it, and no document of that topic left
\* out is more similar to the query than one returned.
C32_FilterMissesNoMatch ==
    (lastQuery.asked /\ lastQuery.topic_filter # "") =>
        /\ Len(lastQuery.results) = Min(lastQuery.n_results, Cardinality(Matching))
        /\ \A i \in Matching : metadata[i].url \notin ReturnedUrls =>
              \A k \in 1..Len(lastQuery.results) :
                  lastQuery.sims[metadata[i].content_preview]
                      <= ResultSimilarity(lastQuery.results[k])

\* a unit whose call of the collaborator never returns
Hung(u) == u.status = "running" /\ u.remaining = Hangs

\* C33: a query unit whose call never returns prevents no sibling unit from
\* being dispatched and completing, however many queries there are: whenever a
\* unit has not yet called the collaborator, either its call can start or a
\* call under way can still return and free a thread for it
C33_HungUnitBlocksNoSibling ==
    fpc = "gather" =>
        \A i \in 1..Len(units) :
            units[i].status = "pending" =>
                \/ \E j \in 1..Len(units) : units[j].status = "pending" /\ CanCall(units, j)
                \/ \E j \in 1..Len(units) : units[j].status = "running" /\ ~Hung(units[j])

\* C34: when a stage's patch is merged, every field of the state the patch
\* does not name keeps its value; the store stage, whose patch is empty,
\* leaves the whole state as it was; topic never changes during a run
C34_UnnamedFieldsKept ==
    [][ /\ lastNode' # lastNode \/ state' # state =>
              \A k \in DOMAIN state :
                  k \notin DOMAIN final_state' =>
                      k \in DOMAIN state' /\ state'[k] = state[k]
        /\ pc = "knowledge_store" => state' = state
        /\ state'.topic = state.topic ]_vars

\* the store stage has run on a state that holds a plan and search results
C34_Witness ==
    /\ lastNode = "knowledge_store"
    /\ pc = "filter"
    /\ state.plan # ""
    /\ state.raw_search_results # <<>>
    /\ state.topic = Topic

\* the URLs of the search results the extract stage was handed
SearchResultUrls ==
    [i \in 1..Len(state.raw_search_results) |-> state.raw_search_results[i].url]

\* C35: the extraction collaborator is called with at most 4 URLs, the last 4
\* of the search results in their order, and is not called when there are no
\* search results
C35_ExtractsLastFourUrls ==
    lastNode = "extractor" =>
        IF SearchResultUrls = <<>>
        THEN ~extractRequest.called
        ELSE /\ extractRequest.called
             /\ Len(extractRequest.urls) = Min(4, Len(SearchResultUrls))
             /\ \A i \in 1..Len(extractRequest.urls) :
                   extractRequest.urls[i] =
                       SearchResultUrls[Len(SearchResultUrls) - Len(extractRequest.urls) + i]

\* the extract stage has run on five search results whose first URL is not
\* among the last four
C35_Witness ==
    /\ lastNode = "extractor"
    /\ Len(SearchResultUrls) = 5
    /\ SearchResultUrls[1] = 2
    /\ extractRequest = [called |-> TRUE, urls |-> <<1, 1, 1, 1>>]

\* the URL a call of a URL score was handed, and its text
ScoredUrl == scCall.sources[1].url

\* C36: score_domain is 1.0 exactly when the hostname with only a leading
\* "www." removed is trusted, otherwise 0.1 when that name is low-quality,
\* otherwise 0.8 when it ends in .edu, .gov or .org, otherwise 0.5; an empty
\* or unparseable URL gives 0.0
C36_DomainScoreStripsLeadingWww ==
    scCall.op = "score_domain" =>
        scCall.summary["score"] =
            IF ScoredUrl = NoUrl \/ ~UrlText(ScoredUrl).parses THEN 0
            ELSE LET name == RemovePrefix(Hostname(UrlText(ScoredUrl)), Www)
                 IN  IF name \in TRUSTED_SOURCES THEN 10000
                     ELSE IF name \in LOW_QUALITY_DOMAINS THEN 1000
                     ELSE IF \E tld \in HIGH_AUTHORITY_DOMAINS : EndsWith(name, tld) THEN 8000
                     ELSE 5000

\* C37: score_url_structure is 0.5, plus 0.2 for https, minus 0.2 for more
\* than 200 characters, minus 0.2 for more than 3 "&" or plus 0.1 for none,
\* minus 0.1 for more than 5 slashes after the host, clamped to [0, 1]; an
\* empty URL gives 0.0
C37_UrlStructureScore ==
    scCall.op = "score_url_structure" =>
        scCall.summary["score"] =
            IF ScoredUrl = NoUrl THEN 0
            ELSE LET url == UrlText(ScoredUrl)
                     sum == 5000
                            + (IF url.scheme = "https" THEN 2000 ELSE 0)
                            - (IF url.length > 200 THEN 2000 ELSE 0)
                            + (IF url.amps > 3 THEN 0 - 2000
                               ELSE IF url.amps = 0 THEN 1000 ELSE 0)
                            - (IF url.path_slashes > 5 THEN 1000 ELSE 0)
                 IN  Max(0, Min(sum, 10000))

\* C38: the pages the store, score_filter and draft stages see include the
\* pages the extract stage returned in the same iteration: when the extract
\* stage's patch is merged, its extracted_pages are in the state the next
\* stage is handed, and the store stage passes them on
C38_ExtractedPagesReachLaterStages ==
    [][ /\ (pc = "extractor" /\ pc' = "knowledge_store") =>
              Range(final_state'.extracted_pages)
                  \subseteq Range(Get(state', "extracted_pages", <<>>))
        /\ (pc = "knowledge_store" /\ pc' = "filter") =>
              Get(state', "extracted_pages", <<>>) = Get(state, "extracted_pages", <<>>)
      ]_vars

\* C39: after any sequence of add_documents calls and reloads the index holds
\* as many vectors as there are metadata records, record i describes vector
\* i, and the known identities are the doc_id values of the records
C39_IndexMetadataIdentitiesAgree ==
    kbpc = "idle" =>
        /\ Len(index) = Len(metadata)
        /\ \A i \in 1..Min(Len(index), Len(metadata)) :
              index[i].vector_of = metadata[i].content_preview
        /\ doc_ids = { metadata[i].doc_id : i \in 1..Len(metadata) }

\* whether an iteration of this run before iteration it stored a document
StoredBefore(md, it) ==
    \E i \in 1..Len(md) : md[i].topic = Topic /\ md[i].iteration < it

====
